---------------------------- MODULE Spec2Model ----------------------------
(***************************************************************************)
(* Model of io_scene_valvesource2/import_vmdl.py: the VMDL attachment      *)
(* parser (parse_vmdl_attachments) and the import operator                 *)
(* (VmdlAttachmentImporter.execute / create_attachment_objects).           *)
(*                                                                         *)
(* A document is a sequence of lexical items.  Each item is the text one   *)
(* of the source's regular expressions can match as a unit: a brace, a     *)
(* class tag, a quoted scalar assignment or a bracketed vector assignment. *)
(* The field sep holds the text between the key and the value, so that     *)
(* the whitespace the regular expressions demand is decided by the model   *)
(* and not assumed.                                                        *)
(***************************************************************************)
EXTENDS Integers, Sequences, FiniteSets, TLC

\* Bounds of the model.
MaxFields == 3
MaxSiblingFields == 2
MaxPieces == 4
MaxBlocks == 3
MaxObjects == 3

----------------------------------------------------------------------------
\* Lexical items of a document.

Brace(c) == [t |-> c, key |-> "", sep |-> "", val |-> "", toks |-> <<>>]

ClassTag(v) ==
    [t |-> "class", key |-> "_class", sep |-> " = ", val |-> v, toks |-> <<>>]

Str(k, s, v) == [t |-> "str", key |-> k, sep |-> s, val |-> v, toks |-> <<>>]

Vec(k, s, ts) == [t |-> "vec", key |-> k, sep |-> s, val |-> "", toks |-> ts]

----------------------------------------------------------------------------
\* Python built-ins used by the parser, on the token strings of the model.

\* str.strip(): removes leading and trailing whitespace.
Strip(c) ==
    CASE c = " 2"  -> "2"
      [] c = "3 "  -> "3"
      [] c = " "   -> ""
      [] OTHER     -> c

\* float(): the numerals of the model and their values.
FloatValue ==
    [c \in {"0", "1", "2", "3", "4", "5", "6", "90", "-90", "1e1"} |->
        CASE c = "0"   -> 0
          [] c = "1"   -> 1
          [] c = "2"   -> 2
          [] c = "3"   -> 3
          [] c = "4"   -> 4
          [] c = "5"   -> 5
          [] c = "6"   -> 6
          [] c = "90"  -> 90
          [] c = "-90" -> 0 - 90
          [] c = "1e1" -> 10]

\* float(c) raises ValueError exactly when c is no numeral.
RaisesValueError(c) == c \notin DOMAIN FloatValue

\* str.lower() on the keys of the model.
Lower(k) ==
    CASE k = "Origin"          -> "origin"
      [] k = "ANGLES"          -> "angles"
      [] k = "Relative_Origin" -> "relative_origin"
      [] OTHER                 -> k

\* dict: a function whose domain is the set of keys present.
EmptyDict == [k \in {} |-> ""]

DictSet(d, k, v) == [x \in (DOMAIN d) \cup {k} |-> IF x = k THEN v ELSE d[x]]

----------------------------------------------------------------------------
\* The regular expressions.

\* '_class = "Attachment"': exactly one space on each side of the equals sign.
IsAttachmentTag(it) ==
    it.t = "class" /\ it.key = "_class" /\ it.sep = " = " /\ it.val = "Attachment"

\* Faulty variant of FirstClose: the group is greedy, '(.*)}', and runs to the
\* last closing brace of the document.
RECURSIVE FirstCloseGreedy(_, _)
FirstCloseGreedy(content, from) ==
    IF from > Len(content) THEN 0
    ELSE IF FirstCloseGreedy(content, from + 1) # 0 THEN FirstCloseGreedy(content, from + 1)
    ELSE IF content[from].t = "}" THEN from
    ELSE 0

\* First index j >= from with content[j] a closing brace, 0 when there is none.
RECURSIVE FirstClose(_, _)
FirstClose(content, from) ==
    IF from > Len(content) THEN 0
    ELSE IF content[from].t = "}" THEN from
    ELSE FirstClose(content, from + 1)

\* attachment_pattern.findall(content): leftmost, non-overlapping matches of
\* '{\s*_class = "Attachment"(.*?)}'; each yields group 1, the items between the
\* tag and the first closing brace after it.
RECURSIVE attachment_pattern(_, _)
attachment_pattern(content, pos) ==
    IF pos + 1 > Len(content) THEN <<>>
    ELSE IF /\ content[pos].t = "{"
            /\ IsAttachmentTag(content[pos + 1])
            /\ FirstClose(content, pos + 2) # 0
         THEN LET j == FirstClose(content, pos + 2)
              IN  <<SubSeq(content, pos + 2, j - 1)>> \o attachment_pattern(content, j + 1)
         ELSE attachment_pattern(content, pos + 1)

\* re.search(r'name\s+=\s+"(.*?)"', block): the key text must end in "name" and
\* whitespace must stand on both sides of the equals sign.
NameMatches(it) == it.t = "str" /\ it.key \in {"name"} /\ it.sep = " = "

\* re.search(r'parent_bone\s+=\s+"(.*?)"', block)
BoneMatches(it) == it.t = "str" /\ it.key \in {"parent_bone"} /\ it.sep = " = "

\* re.search returns the first match: the first index of block, from i on,
\* whose item matches; 0 if none.
RECURSIVE SearchName(_, _)
SearchName(block, i) ==
    IF i > Len(block) THEN 0
    ELSE IF NameMatches(block[i]) THEN i
    ELSE SearchName(block, i + 1)

RECURSIVE SearchBone(_, _)
SearchBone(block, i) ==
    IF i > Len(block) THEN 0
    ELSE IF BoneMatches(block[i]) THEN i
    ELSE SearchBone(block, i + 1)

\* array_pattern: '(relative_origin|relative_angles|origin|angles)\s+=\s*\[(.*?)\]'
\* with re.IGNORECASE: whitespace is required before the equals sign only.
array_pattern(it) ==
    /\ it.t = "vec"
    /\ Lower(it.key) \in {"relative_origin", "relative_angles", "origin", "angles"}
    /\ it.sep \in {" = ", " ="}

----------------------------------------------------------------------------
\* The field extractor: lines 51-81 of parse_vmdl_attachments.

\* Faulty variant of ParseCoords: a token that is no number is dropped like an
\* empty one instead of failing the vector.
RECURSIVE ParseCoordsDropsBadToken(_)
ParseCoordsDropsBadToken(toks) ==
    IF toks = <<>> THEN [ok |-> TRUE, coords |-> <<>>]
    ELSE LET c    == Strip(Head(toks))
             rest == ParseCoordsDropsBadToken(Tail(toks))
         IN  IF c = "" \/ RaisesValueError(c) THEN rest
             ELSE [ok |-> TRUE, coords |-> <<FloatValue[c]>> \o rest.coords]

\* [float(c.strip()) for c in array_content.split(',') if c.strip()]
\* ok is FALSE when some float() raises ValueError.
RECURSIVE ParseCoords(_)
ParseCoords(toks) ==
    IF toks = <<>> THEN [ok |-> TRUE, coords |-> <<>>]
    ELSE LET c    == Strip(Head(toks))
             rest == ParseCoords(Tail(toks))
         IN  IF c = "" THEN rest
             ELSE IF RaisesValueError(c) THEN [ok |-> FALSE, coords |-> <<>>]
             ELSE [ok |-> rest.ok,
                   coords |-> IF rest.ok THEN <<FloatValue[c]>> \o rest.coords ELSE <<>>]

\* 'origin' in key / 'angles' in key, on the lower-cased captured key.
HasOrigin(key) == key \in {"origin", "relative_origin"}
HasAngles(key) == key \in {"angles", "relative_angles"}

\* Faulty variant of VectorStep: a field that is already set is not overwritten.
VectorStepFirstWins(attachment, it) ==
    IF ~array_pattern(it) THEN attachment
    ELSE LET key == Lower(it.key)
             r   == ParseCoords(it.toks)
         IN  IF ~r.ok THEN attachment
             ELSE IF HasOrigin(key) /\ "origin" \notin DOMAIN attachment
                  THEN DictSet(attachment, "origin", r.coords)
             ELSE IF HasAngles(key) /\ "angles" \notin DOMAIN attachment
                  THEN DictSet(attachment, "angles", r.coords)
             ELSE attachment

\* One iteration of "for match in array_pattern.finditer(block)".
VectorStep(attachment, it) ==
    IF ~array_pattern(it) THEN attachment
    ELSE LET key == Lower(it.key)
             r   == ParseCoords(it.toks)
         IN  IF ~r.ok THEN attachment
             ELSE IF HasOrigin(key) THEN DictSet(attachment, "origin", r.coords)
             ELSE IF HasAngles(key) THEN DictSet(attachment, "angles", r.coords)
             ELSE attachment

RECURSIVE VectorLoop(_, _, _)
VectorLoop(attachment, block, i) ==
    IF i > Len(block) THEN attachment
    ELSE VectorLoop(VectorStep(attachment, block[i]), block, i + 1)

\* The partially populated record of one raw block.
ExtractFields(block) ==
    LET n  == SearchName(block, 1)
        b  == SearchBone(block, 1)
        a1 == IF n # 0 THEN DictSet(EmptyDict, "name", block[n].val) ELSE EmptyDict
        a2 == IF b # 0 THEN DictSet(a1, "parent_bone", block[b].val) ELSE a1
    IN  VectorLoop(a2, block, 1)

\* Faulty variant of IsValid: the component count of angles is not tested.
IsValidAnglesUncounted(attachment) ==
    /\ "name" \in DOMAIN attachment
    /\ "origin" \in DOMAIN attachment
    /\ Len(attachment["origin"]) = 3
    /\ "angles" \in DOMAIN attachment

\* The validity test of lines 84-85.
IsValid(attachment) ==
    /\ "name" \in DOMAIN attachment
    /\ "origin" \in DOMAIN attachment
    /\ Len(attachment["origin"]) = 3
    /\ "angles" \in DOMAIN attachment
    /\ Len(attachment["angles"]) = 3

\* One iteration of "for block in attachment_pattern.findall(content)".
BlockStep(data, block) ==
    LET attachment == ExtractFields(block)
    IN  IF IsValid(attachment) THEN Append(data, attachment) ELSE data

RECURSIVE BlockLoop(_, _, _)
BlockLoop(data, blocks, i) ==
    IF i > Len(blocks) THEN data
    ELSE BlockLoop(BlockStep(data, blocks[i]), blocks, i + 1)

\* A file of the file system: open() raises when it is not readable, and the
\* function then returns the empty list.
parse_vmdl_attachments(f) ==
    IF ~f.readable THEN <<>>
    ELSE BlockLoop(<<>>, attachment_pattern(f.content, 1), 1)

----------------------------------------------------------------------------
\* Documents.

Unreadable == [readable |-> FALSE, content |-> <<>>]

Readable(doc) == [readable |-> TRUE, content |-> doc]

\* One attachment block: '{ _class = "Attachment" <body> }'.
Block(body) == <<Brace("{"), ClassTag("Attachment")>> \o body \o <<Brace("}")>>

\* The field items the bodies of the parser's documents are built from.
FieldItems ==
    { Str("name", " = ", "far_00"),
      Str("name", " = ", ""),
      Str("name", "=", "foo"),
      Str("parent_bone", " = ", "hand"),
      Vec("origin", " = ", <<"1", "2", "3">>),
      Vec("relative_origin", " =", <<"4", "5", "", "6">>),
      Vec("Origin", " = ", <<"1", "bad", "3">>),
      Vec("origin", " = ", <<"1", " 2">>),
      Vec("angles", " = ", <<"0", "90", "0">>),
      Vec("relative_angles", " = ", <<"bad">>),
      Vec("ANGLES", " = ", <<"0", "90">>),
      Vec("angles", "=", <<"0", "0", "0">>),
      Vec("scale", " = ", <<"1", "1", "1">>),
      Brace("}") }

SeqsUpTo(S, n) == UNION {[1..k -> S] : k \in 0..n}

\* Bodies of the complete records that stand beside other text in a document.
SiblingBodies ==
    { <<Str("name", " = ", "foo"),
        Vec("origin", " = ", <<"1", "2", "3">>),
        Vec("angles", " = ", <<"0", "0", "90">>)>>,
      <<Str("name", " = ", "near_01"),
        Vec("relative_angles", " = ", <<"90", "0", "0">>),
        Vec("relative_origin", " = ", <<"0", "0", "1e1">>)>> }

\* Pieces of text a document with several opening and closing braces is put
\* together from: the opening of an attachment block, the opening of a block
\* of another class, a closing brace, the fields of a complete record, and a
\* complete attachment block.
DocumentPieces ==
    { <<Brace("{"), ClassTag("Attachment")>>,
      <<Brace("{"), ClassTag("Bone")>>,
      <<Brace("}")>>,
      <<Str("name", " = ", "far_00"),
        Vec("origin", " = ", <<"4", "5", "6">>),
        Vec("angles", " = ", <<"0", "90", "0">>)>>,
      Block(<<Str("name", " = ", "foo"),
              Vec("origin", " = ", <<"1", "2", "3">>),
              Vec("angles", " = ", <<"0", "0", "90">>)>>) }

\* The pieces of ps, one after the other.
RECURSIVE Join(_)
Join(ps) == IF ps = <<>> THEN <<>> ELSE Head(ps) \o Join(Tail(ps))

----------------------------------------------------------------------------
\* State.

VARIABLES
    file,                 \* the file at the path being read
    ppc,                  \* position inside a direct call of parse_vmdl_attachments
    blocks,               \* attachment_pattern.findall(content)
    i,                    \* number of blocks the loop has processed
    attachment,           \* the loop's local dict, as left by the last iteration
    attachments_data,     \* the list of accepted records
    pc,                   \* the operator: "idle", or "execute" once a file is chosen
    filepath,             \* operator property
    filter_mode,          \* operator property
    filtered_attachments, \* execute's local list, as it stood when execute returned
    reports,              \* the self.report calls of the last execute
    ret,                  \* the value the last execute returned
    mode,                 \* context.mode
    active_collection,    \* context.collection, where the host links new objects
    collections,          \* bpy.data.collections: name -> objects linked
    scene_children,       \* context.scene.collection.children
    scene_objects,        \* context.scene.collection.objects
    objects               \* bpy.data.objects, in order of creation

parseVars == <<ppc, blocks, i, attachment>>

opVars == <<pc, filepath, filter_mode, filtered_attachments, reports, ret>>

sceneVars == <<mode, active_collection, collections, scene_children, scene_objects, objects>>

vars == <<file, attachments_data, parseVars, opVars, sceneVars>>

\* The host's default scene and the operator's default properties.
HostInit ==
    /\ pc = "idle"
    /\ filepath = ""
    /\ filter_mode = "ALL"
    /\ filtered_attachments = <<>>
    /\ reports = <<>>
    /\ ret = "NONE"
    /\ mode = "OBJECT"
    /\ active_collection = "Collection"
    /\ collections = [c \in {"Collection"} |-> {}]
    /\ scene_children = {"Collection"}
    /\ scene_objects = {}
    /\ objects = <<>>

----------------------------------------------------------------------------
\* parse_vmdl_attachments, statement by statement.

\* The file read: unreadable, empty, one block of up to MaxFields fields, a
\* complete record with up to MaxSiblingFields more fields before it or after
\* it, in the same block or in a block of their own, or up to MaxPieces
\* pieces of text in any order.
ParseInit ==
    /\ \/ file \in {Unreadable, Readable(<<>>)}
       \/ \E n \in 0..MaxFields : \E b \in [1..n -> FieldItems] :
              file = Readable(Block(b))
       \/ \E n \in 0..MaxSiblingFields : \E b \in [1..n -> FieldItems] :
              \E s \in SiblingBodies :
                  file \in { Readable(Block(b) \o Block(s)), Readable(Block(s) \o Block(b)),
                             Readable(Block(b \o s)), Readable(Block(s \o b)) }
       \/ \E n \in 1..MaxPieces : \E ps \in [1..n -> DocumentPieces] :
              file = Readable(Join(ps))
    /\ ppc = "open"
    /\ blocks = <<>>
    /\ i = 0
    /\ attachment = EmptyDict
    /\ attachments_data = <<>>
    /\ HostInit

\* Lines 29-35: the read fails and the function returns [].
ParseReadError ==
    /\ ppc = "open"
    /\ ~file.readable
    /\ ppc' = "done"
    /\ UNCHANGED <<file, blocks, i, attachment, attachments_data, opVars, sceneVars>>

\* Lines 29-50: the read succeeds; findall lists the raw blocks.
ParseOpen ==
    /\ ppc = "open"
    /\ file.readable
    /\ blocks' = attachment_pattern(file.content, 1)
    /\ ppc' = "loop"
    /\ UNCHANGED <<file, i, attachment, attachments_data, opVars, sceneVars>>

\* Lines 50-86: one iteration of the loop over the raw blocks.
ParseBlock ==
    /\ ppc = "loop"
    /\ i < Len(blocks)
    /\ i' = i + 1
    /\ attachment' = ExtractFields(blocks[i + 1])
    /\ attachments_data' = BlockStep(attachments_data, blocks[i + 1])
    /\ UNCHANGED <<file, ppc, blocks, opVars, sceneVars>>

\* Line 88.
ParseReturn ==
    /\ ppc = "loop"
    /\ i = Len(blocks)
    /\ ppc' = "done"
    /\ UNCHANGED <<file, blocks, i, attachment, attachments_data, opVars, sceneVars>>

ParseNext == ParseReadError \/ ParseOpen \/ ParseBlock \/ ParseReturn

ParseSpec == ParseInit /\ [][ParseNext]_vars

----------------------------------------------------------------------------
\* The import operator.

TARGET_ATTACHMENT_NAMES ==
    { "far_00", "far_01", "far_02",
      "near_00", "near_01", "near_02",
      "gunaim_00", "gunaim_01", "gunaim_02" }

FilterModes == {"ALL", "WEAPON_POINTS"}

\* empty_display_size
EmptyDisplaySize == 80

\* The name of the scene's own collection, which is not in bpy.data.collections.
SceneCollection == "Scene Collection"

Modes == {"OBJECT", "EDIT_MESH"}

\* Bodies of the blocks of the documents handed to the operator.
ImportBodies ==
    { <<Str("name", " = ", "gunaim_00"),
        Vec("origin", " = ", <<"1", "2", "3">>),
        Vec("angles", " = ", <<"0", "90", "0">>)>>,
      <<Str("name", " = ", "foo"),
        Vec("relative_origin", " = ", <<"4", "5", "6">>),
        Vec("relative_angles", " = ", <<"0", "0", "90">>)>>,
      <<Str("name", " = ", "near_01"),
        Vec("origin", " = ", <<"0", "0", "0">>),
        Vec("angles", " = ", <<"-90", "0", "0">>)>>,
      <<Str("name", " = ", "bar"),
        Vec("origin", " = ", <<"1", "bad", "3">>),
        Vec("angles", " = ", <<"0", "0", "0">>)>> }

\* The document made of one block per body of bs.
RECURSIVE Document(_)
Document(bs) == IF bs = <<>> THEN <<>> ELSE Block(Head(bs)) \o Document(Tail(bs))

Report(level, message) == [level |-> level, message |-> message]

\* The texts of the self.report calls.
MsgNoFile == "No file selected."
MsgNoMatches == "Filter is active, but no matching weapon attachments were found in the file."
MsgNoData == "No attachment data found in file after parsing/filtering."
MsgFiltered(n) == "Filtered down to " \o ToString(n) \o " weapon attachments."
MsgCreated(name) == "Created standalone attachment point '" \o name \o "'."
MsgSuccess(n) == "Successfully imported " \o ToString(n) \o " standalone attachments."

\* Faulty variant of WeaponFilter: the test of the name is inverted.
WeaponFilterInverted(data) ==
    SelectSeq(data, LAMBDA att : att["name"] \notin TARGET_ATTACHMENT_NAMES)

\* Lines 126-130: the list comprehension of the weapon-points filter.
WeaponFilter(data) ==
    SelectSeq(data, LAMBDA att : att["name"] \in TARGET_ATTACHMENT_NAMES)

\* math.radians(d): d * pi / 180, kept as the fraction of pi it is.
Radians(d) == [pi_num |-> d, pi_den |-> 180]

\* Lines 165-169.
Location(att) == <<att["origin"][1], att["origin"][2], att["origin"][3]>>

\* Lines 171-175: mathutils.Euler(angles, order) takes the angles about the
\* X, Y and Z axes, in that order, whatever the order string says; the order
\* string tells in which sequence the three axis rotations are applied.
Rotation(att) ==
    [ x     |-> Radians(att["angles"][1]),
      y     |-> Radians(att["angles"][2]),
      z     |-> Radians(att["angles"][3]),
      order |-> "YZX" ]

\* The host keeps the names of a data-block type unique: a name in use gets
\* the first free suffix .001, .002, ...
Suffix(k) == "." \o (IF k < 10 THEN "00" ELSE IF k < 100 THEN "0" ELSE "") \o ToString(k)

UniqueName(name, used) ==
    IF name \notin used THEN name
    ELSE LET free == {k \in 1..(Cardinality(used) + 1) : name \o Suffix(k) \notin used}
         IN  name \o Suffix(CHOOSE k \in free : \A j \in free : k <= j)

\* bpy.data.collections.new(name)
NewCollectionName(name, existing) == UniqueName(name, existing)

\* Faulty variant of AttachmentCollection: a collection is made on every import.
AttachmentCollectionAlwaysNew(colls) ==
    [name |-> NewCollectionName("VMDL_Attachments", DOMAIN colls), created |-> TRUE]

\* Lines 153-158: the collection the objects go to, made when
\* bpy.data.collections holds none of the name and looked up otherwise.
AttachmentCollection(colls) ==
    IF "VMDL_Attachments" \notin DOMAIN colls
    THEN [name |-> NewCollectionName("VMDL_Attachments", DOMAIN colls), created |-> TRUE]
    ELSE [name |-> "VMDL_Attachments", created |-> FALSE]

\* Every collection an object can be linked to: bpy.data.collections and the
\* scene's own collection, by name.
AllCollections(colls, sobjs) ==
    [c \in (DOMAIN colls) \cup {SceneCollection} |->
        IF c = SceneCollection THEN sobjs ELSE colls[c]]

\* Line 178: bpy.ops.object.empty_add links the new object to context.collection.
LinkToActive(all, id, active) ==
    [c \in DOMAIN all |-> IF c = active THEN all[c] \cup {id} ELSE all[c]]

\* Lines 185-188: the object is unlinked from every collection it is in, except
\* one named "Collection".
UnlinkLoop(all, id) ==
    [c \in DOMAIN all |-> IF c = "Collection" THEN all[c] ELSE all[c] \ {id}]

\* Line 189: attachment_collection.objects.link(att_empty).
LinkToTarget(all, id, target) ==
    [c \in DOMAIN all |-> IF c = target THEN all[c] \cup {id} ELSE all[c]]

\* Lines 160-183: the object made for one record; the host makes the name
\* assigned in line 180 unique among the objects objs.
NewObject(att, objs) ==
    [ name               |-> UniqueName(att["name"], {objs[k].name : k \in 1..Len(objs)}),
      location           |-> Location(att),
      rotation_euler     |-> Rotation(att),
      empty_display_size |-> EmptyDisplaySize ]

\* Faulty variant of CreateLoop: the loop stops before the last record.
RECURSIVE CreateLoopStopsEarly(_, _, _, _, _)
CreateLoopStopsEarly(data, k, objs, all, target) ==
    IF k >= Len(data) THEN [objects |-> objs, all |-> all]
    ELSE LET id == Len(objs) + 1
         IN  CreateLoopStopsEarly(data, k + 1,
                        Append(objs, NewObject(data[k], objs)),
                        LinkToTarget(UnlinkLoop(LinkToActive(all, id, active_collection), id),
                                     id, target),
                        target)

\* Lines 160-191: the loop over the records; the object made for data[k] gets
\* the next free index of bpy.data.objects.
RECURSIVE CreateLoop(_, _, _, _, _)
CreateLoop(data, k, objs, all, target) ==
    IF k > Len(data) THEN [objects |-> objs, all |-> all]
    ELSE LET id == Len(objs) + 1
         IN  CreateLoop(data, k + 1,
                        Append(objs, NewObject(data[k], objs)),
                        LinkToTarget(UnlinkLoop(LinkToActive(all, id, active_collection), id),
                                     id, target),
                        target)

\* Lines 151-191.
create_attachment_objects(data) ==
    LET coll   == AttachmentCollection(collections)
        target == coll.name
        colls  == IF coll.created
                  THEN [c \in (DOMAIN collections) \cup {target} |->
                            IF c = target THEN {} ELSE collections[c]]
                  ELSE collections
        made   == CreateLoop(data, 1, objects, AllCollections(colls, scene_objects), target)
    IN  /\ objects' = made.objects
        /\ collections' = [c \in DOMAIN colls |-> made.all[c]]
        /\ scene_objects' = made.all[SceneCollection]
        /\ scene_children' =
              IF coll.created THEN scene_children \cup {target} ELSE scene_children

CreatedReports(data) ==
    [k \in 1..Len(data) |->
        Report("INFO", MsgCreated(data[k]["name"]))]

\* Lines 124-130.
Filtered(data) == IF filter_mode = "WEAPON_POINTS" THEN WeaponFilter(data) ELSE data

\* The user confirms the file browser: the path, the filter and the file found
\* at the path, which is unreadable or holds up to MaxBlocks blocks.  No file
\* stands behind the empty path.  The scene has room for one object per block.
Invoke ==
    /\ pc = "idle"
    /\ \E fm \in FilterModes :
          /\ filter_mode' = fm
          /\ \/ filepath' = "" /\ file' = Unreadable
             \/ filepath' = "model.vmdl" /\ file' = Unreadable
             \/ \E n \in 0..MaxBlocks : \E bs \in [1..n -> ImportBodies] :
                   /\ Len(objects) + n <= MaxObjects
                   /\ filepath' = "model.vmdl"
                   /\ file' = Readable(Document(bs))
    /\ pc' = "execute"
    /\ attachments_data' = <<>>
    /\ filtered_attachments' = <<>>
    /\ reports' = <<>>
    /\ ret' = "NONE"
    /\ UNCHANGED <<parseVars, sceneVars>>

\* Lines 117-149.
execute ==
    /\ pc = "execute"
    /\ pc' = "idle"
    /\ UNCHANGED <<file, filepath, filter_mode, parseVars, active_collection>>
    /\ IF filepath = ""
       THEN /\ reports' = <<Report("ERROR", MsgNoFile)>>
            /\ ret' = "CANCELLED"
            /\ UNCHANGED <<attachments_data, filtered_attachments, mode, collections,
                           scene_children, scene_objects, objects>>
       ELSE LET data     == parse_vmdl_attachments(file)
                filtered == Filtered(data)
                info     == IF filter_mode = "WEAPON_POINTS"
                            THEN <<Report("INFO", MsgFiltered(Len(filtered)))>>
                            ELSE <<>>
            IN  /\ attachments_data' = data
                /\ filtered_attachments' = filtered
                /\ ret' = "FINISHED"
                /\ IF filter_mode = "WEAPON_POINTS" /\ filtered = <<>>
                   THEN /\ reports' = <<Report("WARNING", MsgNoMatches)>>
                        /\ UNCHANGED sceneVars
                   ELSE IF filtered = <<>>
                   THEN /\ reports' = <<Report("WARNING", MsgNoData)>>
                        /\ UNCHANGED sceneVars
                   ELSE /\ mode' = "OBJECT"
                        /\ create_attachment_objects(filtered)
                        /\ reports' = info \o CreatedReports(filtered)
                              \o <<Report("INFO", MsgSuccess(Len(filtered)))>>

\* The user switches the interaction mode.
SetMode ==
    /\ pc = "idle"
    /\ \E m \in Modes : mode' = m
    /\ UNCHANGED <<file, attachments_data, parseVars, opVars, active_collection,
                   collections, scene_children, scene_objects, objects>>

\* The user makes another collection the active one.
SetActiveCollection ==
    /\ pc = "idle"
    /\ \E c \in (DOMAIN collections) \cup {SceneCollection} : active_collection' = c
    /\ UNCHANGED <<file, attachments_data, parseVars, opVars, mode,
                   collections, scene_children, scene_objects, objects>>

Init ==
    /\ file = Unreadable
    /\ attachments_data = <<>>
    /\ ppc = "open"
    /\ blocks = <<>>
    /\ i = 0
    /\ attachment = EmptyDict
    /\ HostInit

Next == Invoke \/ execute \/ SetMode \/ SetActiveCollection

Spec == Init /\ [][Next]_vars

----------------------------------------------------------------------------
\* What a raw block says, read off its text (used by the properties only).

Max(S) == CHOOSE m \in S : \A x \in S : x <= m

Range(q) == {q[k] : k \in 1..Len(q)}

\* The assignments 'name = "..."' of a block.
NameItems(b) ==
    {k \in 1..Len(b) : b[k].t = "str" /\ b[k].key = "name" /\ b[k].sep = " = "}

OriginKeys == {"origin", "relative_origin", "Origin", "Relative_Origin"}
AnglesKeys == {"angles", "relative_angles", "ANGLES"}
KeysOf(F) == IF F = "origin" THEN OriginKeys ELSE AnglesKeys

\* The vector assignments of a block for the logical field F.
VecItems(b, F) ==
    {k \in 1..Len(b) :
        b[k].t = "vec" /\ b[k].key \in KeysOf(F) /\ b[k].sep \in {" = ", " ="}}

\* The number a token of a vector denotes, blanks around it ignored.
Numeral ==
    [c \in {"0", "1", "2", "3", "4", "5", "6", "90", "-90", "1e1", " 2", "3 "} |->
        CASE c \in {"2", " 2"} -> 2
          [] c \in {"3", "3 "} -> 3
          [] c = "0"   -> 0
          [] c = "1"   -> 1
          [] c = "4"   -> 4
          [] c = "5"   -> 5
          [] c = "6"   -> 6
          [] c = "90"  -> 90
          [] c = "-90" -> 0 - 90
          [] c = "1e1" -> 10]

IsBlank(c) == c \in {"", " "}

\* The components of a vector: its tokens that are not blank.
Components(toks) == SelectSeq(toks, LAMBDA c : ~IsBlank(c))

WellFormed(it) == \A c \in Range(Components(it.toks)) : c \in DOMAIN Numeral

Values(it) ==
    LET cs == Components(it.toks) IN [k \in 1..Len(cs) |-> Numeral[cs[k]]]

GoodItems(b, F) == {k \in VecItems(b, F) : WellFormed(b[k])}
BadItems(b, F) == {k \in VecItems(b, F) : ~WellFormed(b[k])}

\* The block yields field F with exactly 3 numeric components.
Yields3(b, F) ==
    /\ GoodItems(b, F) # {}
    /\ Len(Components(b[Max(GoodItems(b, F))].toks)) = 3

Accepted(b) == NameItems(b) # {} /\ Yields3(b, "origin") /\ Yields3(b, "angles")

\* The blocks the loop has processed so far.
Processed == IF ppc \in {"loop", "done"} THEN 1..i ELSE {}

----------------------------------------------------------------------------
\* C1: parse_vmdl_attachments returns a record for a block if and only if the
\* block yields a name, an origin with exactly 3 numeric components and an
\* angles with exactly 3 numeric components: after every iteration the list
\* holds one record per accepted block processed so far, and the record of the
\* block just processed was appended exactly when that block is accepted.
C1_RecordIffWellFormed ==
    /\ Len(attachments_data) = Cardinality({k \in Processed : Accepted(blocks[k])})
    /\ (ppc = "loop" /\ i > 0) =>
          /\ Accepted(blocks[i]) =>
                /\ attachments_data # <<>>
                /\ attachments_data[Len(attachments_data)] = attachment
          /\ ~Accepted(blocks[i]) => attachment \notin Range(attachments_data)

\* C1 witness: a finished parse of two blocks, one accepted and one rejected.
C1_Witness ==
    /\ ppc = "done"
    /\ Len(blocks) = 2
    /\ Len(attachments_data) = 1
    /\ \E k \in 1..2 : ~Accepted(blocks[k]) /\ NameItems(blocks[k]) # {}

\* C2: no record with the empty string as name appears in the result.
C2_NameNonEmpty ==
    \A k \in 1..Len(attachments_data) : attachments_data[k]["name"] # ""

\* C6 as stated: a block holding a malformed vector assignment for a field
\* leaves that field unset and contributes no record.
C6_MalformedLeavesUnset ==
    (ppc = "loop" /\ i > 0) =>
        \A F \in {"origin", "angles"} :
            BadItems(blocks[i], F) # {} =>
                /\ F \notin DOMAIN attachment
                /\ attachment \notin Range(attachments_data)

\* C6 amended: a malformed vector assignment sets nothing.  A field whose
\* assignments in the block are all malformed is left unset and the block
\* contributes no record; the failure is local: the name and the other field
\* of the same block are still extracted, and every accepted block of the
\* document is still returned.
C6_MalformedIsSkipped ==
    /\ (ppc = "loop" /\ i > 0) =>
          \A F \in {"origin", "angles"} :
              (BadItems(blocks[i], F) # {} /\ GoodItems(blocks[i], F) = {}) =>
                  /\ F \notin DOMAIN attachment
                  /\ attachment \notin Range(attachments_data)
                  /\ NameItems(blocks[i]) # {} => "name" \in DOMAIN attachment
                  /\ \A G \in {"origin", "angles"} \ {F} :
                        GoodItems(blocks[i], G) # {} => G \in DOMAIN attachment
    /\ ppc = "done" =>
          Len(attachments_data) = Cardinality({k \in 1..Len(blocks) : Accepted(blocks[k])})

\* C6 witness: the block with the malformed origin came last, its name and
\* angles were extracted, and its valid sibling is in the result.
C6_Witness ==
    /\ ppc = "done"
    /\ Len(blocks) = 2
    /\ BadItems(blocks[2], "origin") # {}
    /\ "origin" \notin DOMAIN attachment
    /\ "angles" \in DOMAIN attachment
    /\ Len(attachments_data) = 1
    /\ attachments_data[1]["name"] = "foo"

\* C7 as stated: with two or more assignments for a logical field, the last
\* one in scan order decides the field (a last one without a value leaves
\* the field without one).
C7_LastAssignmentWins ==
    (ppc = "loop" /\ i > 0) =>
        \A F \in {"origin", "angles"} :
            Cardinality(VecItems(blocks[i], F)) >= 2 =>
                LET last == blocks[i][Max(VecItems(blocks[i], F))]
                IN  IF WellFormed(last)
                    THEN F \in DOMAIN attachment /\ attachment[F] = Values(last)
                    ELSE F \notin DOMAIN attachment

\* C7 amended: the field holds the value of the last assignment for it whose
\* tokens are all numbers; malformed assignments are passed over, and the
\* field is unset when no assignment for it is well formed.
C7_LastWellFormedWins ==
    (ppc = "loop" /\ i > 0) =>
        \A F \in {"origin", "angles"} :
            IF GoodItems(blocks[i], F) = {}
            THEN F \notin DOMAIN attachment
            ELSE /\ F \in DOMAIN attachment
                 /\ attachment[F] = Values(blocks[i][Max(GoodItems(blocks[i], F))])

\* C7 witness: two well-formed origin assignments with different values, under
\* the keys origin and relative_origin; the record holds the later one.
C7_Witness ==
    /\ ppc = "loop" /\ i > 0
    /\ \E j, k \in GoodItems(blocks[i], "origin") :
          /\ j < k
          /\ k = Max(VecItems(blocks[i], "origin"))
          /\ blocks[i][j].key # blocks[i][k].key
          /\ Values(blocks[i][j]) # Values(blocks[i][k])
          /\ attachment["origin"] = Values(blocks[i][k])

----------------------------------------------------------------------------
\* Properties of the import operator.

Reported(m) == \E k \in 1..Len(reports) : reports[k].message = m

\* An execute that read a path has returned.
Executed == pc = "idle" /\ ret # "NONE" /\ filepath # ""

Names(data) == [k \in 1..Len(data) |-> data[k]["name"]]

\* The nine names of the weapon-points allow-list, as the claim lists them.
NineNames ==
    {p \o "_0" \o d : p \in {"far", "near", "gunaim"}, d \in {"0", "1", "2"}}

Min(S) == CHOOSE m \in S : \A x \in S : m <= x

\* The names of the accepted blocks of a file, in document order.
AcceptedNames(f) ==
    IF ~f.readable THEN <<>>
    ELSE LET raw == SelectSeq(attachment_pattern(f.content, 1), Accepted)
         IN  [k \in 1..Len(raw) |-> raw[k][Min(NameItems(raw[k]))].val]

\* The objects a step has added to bpy.data.objects.
Added == SubSeq(objects', Len(objects) + 1, Len(objects'))

\* C3 as stated: a path that cannot be read ends in an outcome of its own,
\* reported to the user: not in the warning of a document without records,
\* nor in the warning of a filter without matches.
C3_ReadFailureIsDistinct ==
    (Executed /\ ~file.readable) =>
        /\ reports # <<>>
        /\ ~Reported(MsgNoData)
        /\ ~Reported(MsgNoMatches)

\* C4 as stated: a readable document without valid records reports "no
\* attachments found" in either filter mode, and "no matches after filter" is
\* reported only with the filter active, valid records present and none of
\* them allow-listed.
C4_ConditionsNotConfused ==
    (Executed /\ file.readable) =>
        /\ attachments_data = <<>> => Reported(MsgNoData)
        /\ Reported(MsgNoMatches) =>
              /\ filter_mode = "WEAPON_POINTS"
              /\ attachments_data # <<>>
              /\ \A k \in 1..Len(attachments_data) :
                    attachments_data[k]["name"] \notin NineNames

\* C5: the records handed to object creation are, with the weapon-points
\* filter, exactly the valid records of the document with one of the nine
\* names, in document order, and with the filter off all valid records in
\* document order; one object is made for each, in that order, at the
\* record's origin.
C5_FilterExact ==
    [][ (pc = "execute" /\ filepath # "") =>
            LET valid    == AcceptedNames(file)
                expected == IF filter_mode = "WEAPON_POINTS"
                            THEN SelectSeq(valid, LAMBDA n : n \in NineNames)
                            ELSE valid
            IN  /\ Names(attachments_data') = valid
                /\ Names(filtered_attachments') = expected
                /\ \A k \in 1..Len(filtered_attachments') :
                      filtered_attachments'[k] \in Range(attachments_data')
                /\ Len(Added) = Len(expected)
                /\ \A k \in 1..Len(Added) :
                      Added[k].location = filtered_attachments'[k]["origin"] ]_vars

\* C5 witness: the document held gunaim_00, foo and near_01; the filter kept
\* the first and the last, and the two newest objects stand at their origins.
C5_Witness ==
    /\ Executed
    /\ filter_mode = "WEAPON_POINTS"
    /\ Names(attachments_data) = <<"gunaim_00", "foo", "near_01">>
    /\ Names(filtered_attachments) = <<"gunaim_00", "near_01">>
    /\ Len(objects) >= 2
    /\ objects[Len(objects) - 1].location = <<1, 2, 3>>
    /\ objects[Len(objects)].location = <<0, 0, 0>>

\* C8: an import makes the container VMDL_Attachments only when none of that
\* name exists and makes no other container; an existing one is reused; every
\* object an import makes is a member of it when the import returns.
C8_OneContainer ==
    [][ pc = "execute" =>
            /\ "VMDL_Attachments" \in DOMAIN collections =>
                  DOMAIN collections' = DOMAIN collections
            /\ DOMAIN collections' \subseteq (DOMAIN collections) \cup {"VMDL_Attachments"}
            /\ Len(objects') > Len(objects) =>
                  /\ "VMDL_Attachments" \in DOMAIN collections'
                  /\ \A id \in (Len(objects) + 1)..Len(objects') :
                        id \in collections'["VMDL_Attachments"]
            /\ \A id \in 1..Len(objects) : \A c \in DOMAIN collections :
                  id \in collections[c] <=> id \in collections'[c] ]_vars

\* C8 witness: two imports, made with different collections active, put their
\* objects into the one container.
C8_Witness ==
    /\ pc = "idle"
    /\ DOMAIN collections = {"Collection", "VMDL_Attachments"}
    /\ Len(objects) = 2
    /\ collections["VMDL_Attachments"] = {1, 2}
    /\ collections["Collection"] = {1}

----------------------------------------------------------------------------
\* The rotation an Euler triple stands for, for angles that are quarter turns.

QuarterTurns(r) == (2 * r.pi_num) \div r.pi_den

Cos4(q) == CASE q % 4 = 0 -> 1 [] q % 4 = 2 -> 0 - 1 [] OTHER -> 0
Sin4(q) == CASE q % 4 = 1 -> 1 [] q % 4 = 3 -> 0 - 1 [] OTHER -> 0

RotX(q) == << <<1, 0, 0>>,
              <<0, Cos4(q), 0 - Sin4(q)>>,
              <<0, Sin4(q), Cos4(q)>> >>

RotY(q) == << <<Cos4(q), 0, Sin4(q)>>,
              <<0, 1, 0>>,
              <<0 - Sin4(q), 0, Cos4(q)>> >>

RotZ(q) == << <<Cos4(q), 0 - Sin4(q), 0>>,
              <<Sin4(q), Cos4(q), 0>>,
              <<0, 0, 1>> >>

MatMul(A, B) ==
    [r \in 1..3 |-> [c \in 1..3 |-> A[r][1] * B[1][c] + A[r][2] * B[2][c] + A[r][3] * B[3][c]]]

\* Order YZX: the rotation about Y is applied first, then Z, then X.
EulerMatrix(e) ==
    MatMul(RotX(QuarterTurns(e.x)), MatMul(RotZ(QuarterTurns(e.z)), RotY(QuarterTurns(e.y))))

GunaimDocument ==
    Block(<<Str("name", " = ", "gunaim_00"),
            Vec("origin", " = ", <<"1", "2", "3">>),
            Vec("angles", " = ", <<"0", "90", "0">>)>>)

\* C9 as stated: the document with the one block gunaim_00, origin [1,2,3],
\* angles [0,90,0] yields exactly one record with that name and origin; the
\* object is placed at (1,2,3) and its rotation, an Euler triple of order YZX,
\* is the rotation by 90 degrees about the Z axis.
C9_YawIsAboutZ ==
    (Executed /\ file = Readable(GunaimDocument)) =>
        /\ Len(attachments_data) = 1
        /\ attachments_data[1]["name"] = "gunaim_00"
        /\ attachments_data[1]["origin"] = <<1, 2, 3>>
        /\ objects # <<>>
        /\ LET o == objects[Len(objects)]
           IN  /\ o.location = <<1, 2, 3>>
               /\ o.rotation_euler.order = "YZX"
               /\ EulerMatrix(o.rotation_euler) = RotZ(1)

\* C10: an import that ends without the success report leaves the scene as it
\* was: no container, no object, no link and no switch of the interaction
\* mode.  Only the import that ends with the success report changes the scene,
\* and it adds exactly one object per record handed to object creation.
C10_FailureLeavesScene ==
    [][ pc = "execute" =>
            LET n       == Len(filtered_attachments')
                success == /\ reports' # <<>>
                           /\ reports'[Len(reports')] = Report("INFO", MsgSuccess(n))
            IN  /\ ~success =>
                      /\ UNCHANGED sceneVars
                      /\ reports' \in { <<Report("ERROR", MsgNoFile)>>,
                                        <<Report("WARNING", MsgNoData)>>,
                                        <<Report("WARNING", MsgNoMatches)>> }
                /\ success =>
                      /\ n > 0
                      /\ Len(objects') = Len(objects) + n
                      /\ SubSeq(objects', 1, Len(objects)) = objects
                      /\ \A k \in 1..n :
                            Added[k].location = filtered_attachments'[k]["origin"]
                      /\ ret' = "FINISHED" ]_vars

\* C10 witness: in edit mode, with objects of an earlier import in the scene,
\* an import of a path that could not be read has returned.
C10_Witness ==
    /\ Executed
    /\ ~file.readable
    /\ mode = "EDIT_MESH"
    /\ Len(objects) = 1
    /\ reports = <<Report("WARNING", MsgNoData)>>

----------------------------------------------------------------------------
\* Where the blocks of a document stand, read off its text (used by the
\* properties only).

\* The positions of an opening brace followed by the class tag.
Occurrences(doc) ==
    {p \in 1..(Len(doc) - 1) :
        /\ doc[p].t = "{"
        /\ doc[p + 1].t = "class" /\ doc[p + 1].key = "_class"
        /\ doc[p + 1].sep = " = " /\ doc[p + 1].val = "Attachment"}

\* The closing braces after the tag of the occurrence at p.
ClosesAfter(doc, p) == {j \in (p + 2)..Len(doc) : doc[j].t = "}"}

Terminated(doc, p) == ClosesAfter(doc, p) # {}

\* The first closing brace after the tag of the occurrence at p.
EndOf(doc, p) == Min(ClosesAfter(doc, p))

\* The text between the tag of the occurrence at p and the first closing brace.
RawBlock(doc, p) == SubSeq(doc, p + 2, EndOf(doc, p) - 1)

\* The k-th member of a set of positions, in increasing order.
Nth(S, k) == CHOOSE p \in S : Cardinality({q \in S : q < p}) = k - 1

\* The occurrences that have a closing brace after them and do not stand
\* inside the match of an earlier one of them.
Emitted(doc) ==
    CHOOSE S \in SUBSET Occurrences(doc) :
        \A p \in Occurrences(doc) :
            p \in S <=> /\ Terminated(doc, p)
                        /\ ~ \E q \in S : q < p /\ p < EndOf(doc, q)

\* The record a raw block stands for: its first name, and for each vector
\* field the values of its last well-formed assignment.
RecordOf(b) ==
    [ name   |-> b[Min(NameItems(b))].val,
      origin |-> Values(b[Max(GoodItems(b, "origin"))]),
      angles |-> Values(b[Max(GoodItems(b, "angles"))]) ]

\* The returned records are those of the accepted raw blocks, in the order of
\* the blocks.
RecordsInBlockOrder ==
    LET acc == {k \in 1..Len(blocks) : Accepted(blocks[k])}
    IN  /\ Len(attachments_data) = Cardinality(acc)
        /\ \A m \in 1..Len(attachments_data) :
              LET r == RecordOf(blocks[Nth(acc, m)])
              IN  /\ attachments_data[m]["name"] = r.name
                  /\ attachments_data[m]["origin"] = r.origin
                  /\ attachments_data[m]["angles"] = r.angles

\* C11 as stated: the scanner emits one raw block per occurrence of an opening
\* brace followed by the class tag, in order of appearance, each ending at the
\* first closing brace after the tag; the returned records keep the order of
\* their blocks.
C11_OneBlockPerOccurrence ==
    (ppc \in {"loop", "done"} /\ file.readable) =>
        LET doc == file.content
            occ == Occurrences(doc)
        IN  /\ Len(blocks) = Cardinality(occ)
            /\ \A k \in 1..Len(blocks) :
                  /\ Terminated(doc, Nth(occ, k))
                  /\ blocks[k] = RawBlock(doc, Nth(occ, k))
            /\ ppc = "done" => RecordsInBlockOrder

\* C11 as amended: the scanner emits one raw block per occurrence that has a
\* closing brace after its tag and does not stand inside an earlier match, in
\* order of appearance; each raw block ends at the first closing brace after
\* the tag, so it holds no closing brace and nothing behind one; the returned
\* records are read from the raw blocks only and keep the order of their
\* blocks.
C11_OneBlockPerMatch ==
    (ppc \in {"loop", "done"} /\ file.readable) =>
        LET doc == file.content
            em  == Emitted(doc)
        IN  /\ Len(blocks) = Cardinality(em)
            /\ \A k \in 1..Len(blocks) :
                  /\ blocks[k] = RawBlock(doc, Nth(em, k))
                  /\ \A j \in 1..Len(blocks[k]) : blocks[k][j].t # "}"
            /\ ppc = "done" => RecordsInBlockOrder

\* C11 witness: a finished parse of a document in which a well-formed origin
\* stands behind the first closing brace of an emitted block and before a
\* further closing brace; the block's record is returned with the origin
\* assigned before that brace.
C11_Witness ==
    /\ ppc = "done"
    /\ file.readable
    /\ \E p \in Emitted(file.content) :
          LET doc == file.content
              e   == EndOf(doc, p)
          IN  /\ e + 1 \in GoodItems(doc, "origin")
              /\ \E j \in (e + 2)..Len(doc) : doc[j].t = "}"
              /\ Accepted(RawBlock(doc, p))
              /\ \E m \in 1..Len(attachments_data) :
                    /\ attachments_data[m]["origin"] = RecordOf(RawBlock(doc, p)).origin
                    /\ attachments_data[m]["origin"] # Values(doc[e + 1])

============================================================================
